---- MODULE Spec2Model ----
(***************************************************************************)
(* The streaming chat of chat_interface/src/components/StreamChat.js.      *)
(*                                                                         *)
(* The file defines the StreamingChat component twice.  The first          *)
(* definition (lines 5-233) reads the incremental text from the `token`    *)
(* field of a payload and looks at `is_finished`; the second (lines        *)
(* 239-572) reads the `content` field.  `variant` says which of the two    *)
(* is mounted.                                                             *)
(*                                                                         *)
(* Text is a sequence of characters, a response body a sequence of bytes.  *)
(* An ASCII byte is written as its character; the two bytes of a two-byte  *)
(* UTF-8 character are LeadByte and ContByte.  A few words that the code   *)
(* never looks into ("data", "content", "true", "DONE", ...) are one       *)
(* character of the model, so that "data: " is three characters long.      *)
(***************************************************************************)
EXTENDS Integers, Sequences, FiniteSets, TLC

\* Number of prompts a behaviour may submit.
MaxTurns == 2

Sessions == 1..MaxTurns

Variants == {"token", "content"}

-----------------------------------------------------------------------------
(* Characters and bytes *)

Q == "\""
NL == "\n"
LeadByte == "C3"
ContByte == "A9"
EAcute == "e'"
Replacement == "FFFD"

\* String.prototype.trim removes these from both ends.
WhiteSpace == {" ", "\r", "\t", NL}

RECURSIVE TrimStart(_)
TrimStart(s) ==
  IF s # <<>> /\ Head(s) \in WhiteSpace THEN TrimStart(Tail(s)) ELSE s

RECURSIVE TrimEnd(_)
TrimEnd(s) ==
  IF s # <<>> /\ s[Len(s)] \in WhiteSpace
  THEN TrimEnd(SubSeq(s, 1, Len(s) - 1)) ELSE s

Trim(s) == TrimEnd(TrimStart(s))

StartsWith(s, p) == Len(s) >= Len(p) /\ SubSeq(s, 1, Len(p)) = p

Slice(s, n) == SubSeq(s, n + 1, Len(s))

-----------------------------------------------------------------------------
(* TextDecoder *)

Held == "held"

NotHeld(c) == c # Held

\* What the decoder makes of byte i of `bytes`: a lead byte becomes U+FFFD
\* unless a continuation byte follows, and is held back when it is the last
\* byte; a continuation byte completes the character or becomes U+FFFD.
DecodeAt(bytes, i, flush) ==
  IF bytes[i] = LeadByte
  THEN IF i = Len(bytes) THEN (IF flush THEN Replacement ELSE Held)
       ELSE IF bytes[i + 1] = ContByte THEN Held ELSE Replacement
  ELSE IF bytes[i] = ContByte
       THEN IF i > 1 /\ bytes[i - 1] = LeadByte THEN EAcute ELSE Replacement
  ELSE bytes[i]

Decode(need, chunk, flush) ==
  LET bytes == need \o chunk IN
  [text |-> SelectSeq([i \in 1..Len(bytes) |-> DecodeAt(bytes, i, flush)], NotHeld),
   need |-> IF ~flush /\ bytes # <<>> /\ bytes[Len(bytes)] = LeadByte
            THEN <<LeadByte>> ELSE <<>>]

\* decoder.decode(value) without the stream flag: an incomplete character at
\* the end of the chunk is flushed as U+FFFD.
DecodeFlushing(need, chunk) == Decode(need, chunk, TRUE)

\* decoder.decode(value, {stream: true}): `need` is the lead byte the decoder
\* holds back from the chunk before (<<>> when none).
decode(need, chunk) == Decode(need, chunk, FALSE)

-----------------------------------------------------------------------------
(* buffer.split("\n") and lines.pop() *)

\* The pieces of text between its line breaks, one more than it has breaks.
split(text) ==
  LET breaks == {i \in 1..Len(text) : text[i] = NL}
      n == Cardinality(breaks)
      at == [j \in 1..n |->
               CHOOSE p \in breaks : Cardinality({q \in breaks : q < p}) = j - 1]
  IN [j \in 1..(n + 1) |->
        SubSeq(text, IF j = 1 THEN 1 ELSE at[j - 1] + 1,
                     IF j = n + 1 THEN Len(text) ELSE at[j] - 1)]

\* One pass of the loop body up to the for loop: decode the chunk, append it
\* to the buffer, split, keep the last piece as the new buffer.
Feed(need, buf, chunk) ==
  LET d == decode(need, chunk)
      parts == split(buf \o d.text)
  IN [lines |-> SubSeq(parts, 1, Len(parts) - 1),
      buffer |-> parts[Len(parts)],
      need |-> d.need]

-----------------------------------------------------------------------------
(* JSON.parse, for the payloads the streams below carry: an object whose    *)
(* members are strings or literals, or a bare string or literal.  A parse   *)
(* result is [ok, t, v, m]: t is "obj", "str" or "lit", v the characters of *)
(* a string or the literal, m the members <<[k, val], ...>> of an object.   *)

Literals == {"true", "false", "null"}

RECURSIVE SkipWS(_, _)
SkipWS(s, i) ==
  IF i <= Len(s) /\ s[i] \in WhiteSpace THEN SkipWS(s, i + 1) ELSE i

RECURSIVE FindQuote(_, _)
FindQuote(s, i) ==
  IF i > Len(s) THEN 0 ELSE IF s[i] = Q THEN i ELSE FindQuote(s, i + 1)

NoScalar == [ok |-> FALSE, t |-> "lit", v |-> <<>>, next |-> 0]

NoMembers == [ok |-> FALSE, m |-> <<>>, next |-> 0]

SyntaxError == [ok |-> FALSE, t |-> "lit", v |-> <<>>, m |-> <<>>]

Undefined == [t |-> "undef", v |-> <<>>]

StringAt(s, a, z) ==
  IF z = 0 THEN NoScalar
  ELSE [ok |-> TRUE, t |-> "str", v |-> SubSeq(s, a + 1, z - 1), next |-> z + 1]

ScalarAt(s, a) ==
  IF a > Len(s) THEN NoScalar
  ELSE IF s[a] = Q THEN StringAt(s, a, FindQuote(s, a + 1))
  ELSE IF s[a] \in Literals
       THEN [ok |-> TRUE, t |-> "lit", v |-> <<s[a]>>, next |-> a + 1]
  ELSE NoScalar

ParseScalar(s, i) == ScalarAt(s, SkipWS(s, i))

RECURSIVE ParseMembers(_, _, _)

MemberEnd(s, e, more) ==
  IF e > Len(s) THEN NoMembers
  ELSE IF s[e] = "}" THEN [ok |-> TRUE, m |-> more, next |-> e + 1]
  ELSE IF s[e] = "," THEN ParseMembers(s, e + 1, more)
  ELSE NoMembers

MemberValue(s, key, val, acc) ==
  IF ~val.ok THEN NoMembers
  ELSE MemberEnd(s, SkipWS(s, val.next),
                 Append(acc, [k |-> key.v, val |-> [t |-> val.t, v |-> val.v]]))

MemberColon(s, key, c, acc) ==
  IF c > Len(s) \/ s[c] # ":" THEN NoMembers
  ELSE MemberValue(s, key, ParseScalar(s, c + 1), acc)

MemberKey(s, key, acc) ==
  IF ~key.ok \/ key.t # "str" THEN NoMembers
  ELSE MemberColon(s, key, SkipWS(s, key.next), acc)

ParseMembers(s, i, acc) == MemberKey(s, ParseScalar(s, i), acc)

\* The whole text must be one value: anything after it is a syntax error.
Whole(s, r, t) ==
  IF r.ok /\ SkipWS(s, r.next) = Len(s) + 1
  THEN [ok |-> TRUE, t |-> t, v |-> IF t = "obj" THEN <<>> ELSE r.v,
        m |-> IF t = "obj" THEN r.m ELSE <<>>]
  ELSE SyntaxError

ObjectAt(s, a, b) ==
  IF b <= Len(s) /\ s[b] = "}"
  THEN [ok |-> TRUE, m |-> <<>>, next |-> b + 1]
  ELSE ParseMembers(s, a + 1, <<>>)

ValueAt(s, a) ==
  IF a > Len(s) THEN SyntaxError
  ELSE IF s[a] = "{" THEN Whole(s, ObjectAt(s, a, SkipWS(s, a + 1)), "obj")
  ELSE Whole(s, ScalarAt(s, a), ScalarAt(s, a).t)

JSONparse(s) == ValueAt(s, SkipWS(s, 1))

\* parsed.name: the last member of that name; undefined when there is none
\* or when parsed is a string or a boolean.
RECURSIVE Lookup(_, _, _)
Lookup(m, name, i) ==
  IF i = 0 THEN Undefined
  ELSE IF m[i].k = name THEN m[i].val ELSE Lookup(m, name, i - 1)

Member(parsed, name) == Lookup(parsed.m, name, Len(parsed.m))

\* Reading a property of null throws a TypeError.
IsNull(parsed) == parsed.t = "lit" /\ parsed.v = <<"null">>

Truthy(val) ==
  \/ val.t = "str" /\ val.v # <<>>
  \/ val.t = "lit" /\ val.v = <<"true">>

\* `x || ""`, as the text that `+` appends.
OrEmpty(val) == IF Truthy(val) THEN val.v ELSE <<>>

-----------------------------------------------------------------------------
(* The for loop over the lines of a chunk.  What the loop does with a line  *)
(* is an entry [line, kind, text, brk]: kind "delta" appends text to the    *)
(* last message, brk says that the loop leaves the for statement after it.  *)

DataPrefix == <<"data", ":", " ">>

Sentinel == <<"[", "DONE", "]">>

Entry(line, kind, text, brk) ==
  [line |-> line, kind |-> kind, text |-> text, brk |-> brk]

\* The catch clause leaving the for loop instead of going on to the next line.
PayloadBreaking(line, data, field, looksAtFinished) ==
  LET parsed == JSONparse(data) IN
  IF ~parsed.ok \/ IsNull(parsed) THEN Entry(line, "malformed", <<>>, TRUE)
  ELSE LET text == OrEmpty(Member(parsed, <<field>>))
           fin == looksAtFinished /\ Truthy(Member(parsed, <<"is_finished">>))
       IN Entry(line, IF text # <<>> THEN "delta" ELSE "silent", text, fin)

\* try { JSON.parse ... } catch { }: the text of `field` when it is truthy,
\* and, in the first component, the break on is_finished.
Payload(line, data, field, looksAtFinished) ==
  LET parsed == JSONparse(data) IN
  IF ~parsed.ok \/ IsNull(parsed) THEN Entry(line, "malformed", <<>>, FALSE)
  ELSE LET text == OrEmpty(Member(parsed, <<field>>))
           fin == looksAtFinished /\ Truthy(Member(parsed, <<"is_finished">>))
       IN Entry(line, IF text # <<>> THEN "delta" ELSE "silent", text, fin)

\* The body of the for loop of the first component (lines 67-101).
LineToken(line) ==
  LET trimmedLine == Trim(line) IN
  IF trimmedLine = <<>> THEN Entry(line, "blank", <<>>, FALSE)
  ELSE IF StartsWith(trimmedLine, DataPrefix)
       THEN LET jsonStr == Trim(Slice(trimmedLine, Len(DataPrefix))) IN
            IF jsonStr = Sentinel THEN Entry(line, "sentinel", <<>>, FALSE)
            ELSE Payload(line, jsonStr, "token", TRUE)
  ELSE Payload(line, trimmedLine, "token", TRUE)

\* The second component parsing a line that has no prefix as a payload, the
\* way the first component does.
LineContentBare(line) ==
  IF StartsWith(line, DataPrefix)
  THEN LET data == Trim(Slice(line, Len(DataPrefix))) IN
       IF data = Sentinel THEN Entry(line, "sentinel", <<>>, FALSE)
       ELSE Payload(line, data, "content", FALSE)
  ELSE Payload(line, Trim(line), "content", FALSE)

\* The body of the for loop of the second component (lines 367-389).
LineContent(line) ==
  IF StartsWith(line, DataPrefix)
  THEN LET data == Trim(Slice(line, Len(DataPrefix))) IN
       IF data = Sentinel THEN Entry(line, "sentinel", <<>>, FALSE)
       ELSE Payload(line, data, "content", FALSE)
  ELSE Entry(line, "ignored", <<>>, FALSE)

Line(v, line) == IF v = "token" THEN LineToken(line) ELSE LineContent(line)

\* for (const line of lines): the entries of all lines; the lines after a
\* break are not looked at ("skipped").
RECURSIVE ForLines(_, _, _, _)
ForLines(v, lines, broke, acc) ==
  IF lines = <<>> THEN acc
  ELSE IF broke
       THEN ForLines(v, Tail(lines), TRUE,
                     Append(acc, Entry(Head(lines), "skipped", <<>>, FALSE)))
  ELSE LET e == Line(v, Head(lines)) IN
       ForLines(v, Tail(lines), e.brk, Append(acc, e))

-----------------------------------------------------------------------------
(* setMessages *)

FailureNotice(v) ==
  IF v = "token" THEN <<"Sorry, something wrong happen. Please try again">>
  ELSE <<"Sorry, something went wrong. Please try again.">>

Last(msgs) == msgs[Len(msgs)]

\* The delta written over the text applied so far.
OverwriteLast(msgs, text) ==
  [msgs EXCEPT ![Len(msgs)] = [@ EXCEPT !.content = text]]

\* The delta added to the message before the last one, the prompt.
AppendToPrompt(msgs, text) ==
  [msgs EXCEPT ![Len(msgs) - 1] = [@ EXCEPT !.content = @ \o text]]

\* setMessages(prev => ...content: prev[last].content + text)
AppendToLast(msgs, text) ==
  [msgs EXCEPT ![Len(msgs)] = [@ EXCEPT !.content = @ \o text]]

\* the notice shown as one more message
AppendNoticeAsMessage(msgs, text) ==
  Append(msgs, [role |-> "assistant", content |-> text])

\* The notice added to the text applied so far instead of replacing it.
AppendNoticeToLast(msgs, text) ==
  [msgs EXCEPT ![Len(msgs)] = [@ EXCEPT !.content = @ \o text]]

\* setMessages(prev => ...content: notice)
ReplaceLast(msgs, text) ==
  [msgs EXCEPT ![Len(msgs)] = [@ EXCEPT !.content = text]]

\* Every update of a chunk computed from the list as it was when the chunk
\* arrived: only the last one takes effect.
RECURSIVE ApplyStale(_, _, _)
ApplyStale(base, msgs, entries) ==
  IF entries = <<>> THEN msgs
  ELSE ApplyStale(base,
                  IF Head(entries).kind = "delta"
                  THEN AppendToLast(base, Head(entries).text) ELSE msgs,
                  Tail(entries))

AppendFromSnapshot(msgs, entries) == ApplyStale(msgs, msgs, entries)

\* The updaters queued while a chunk is processed, run in order, each on the
\* result of the one before.
RECURSIVE ApplyDeltas(_, _)
ApplyDeltas(msgs, entries) ==
  IF entries = <<>> THEN msgs
  ELSE ApplyDeltas(IF Head(entries).kind = "delta"
                   THEN AppendToLast(msgs, Head(entries).text) ELSE msgs,
                   Tail(entries))

-----------------------------------------------------------------------------
(* Response bodies *)

Str(text) == <<Q>> \o text \o <<Q>>

Field(name, value) == Str(<<name>>) \o <<":">> \o value

Obj1(f) == <<"{">> \o f \o <<"}">>

Obj2(f, g) == <<"{">> \o f \o <<",">> \o g \o <<"}">>

DataLine(payload) == DataPrefix \o payload \o <<NL>>

\* {"content":"x"} for the second component, {"token":"x"} for the first.
Delta(v, text) == Obj1(Field(v, Str(text)))

\* data: {"content":"Hey"} and data: {"content":"e'"}, a blank line after each.
StreamFrames ==
  DataLine(Delta("content", <<"H", "e", "y">>)) \o <<NL>>
  \o DataLine(Delta("content", <<LeadByte, ContByte>>)) \o <<NL>>

\* data: {"token":"Hi","is_finished":false} and data: {"token":"e'"}, CRLF ended.
StreamTokens ==
  DataPrefix \o Obj2(Field("token", Str(<<"H", "i">>)), Field("is_finished", <<"false">>))
  \o <<"\r", NL>>
  \o DataPrefix \o Delta("token", <<LeadByte, ContByte>>) \o <<"\r", NL>>

\* A delta, the sentinel, a delta.
StreamSentinel(v) ==
  DataLine(Delta(v, <<"A">>)) \o DataLine(Sentinel) \o DataLine(Delta(v, <<"B">>))

\* A delta with is_finished true, then two more deltas.
StreamFinished(v) ==
  DataLine(Obj2(Field(v, Str(<<"A">>)), Field("is_finished", <<"true">>)))
  \o DataLine(Delta(v, <<"B">>)) \o DataLine(Delta(v, <<"C">>))

\* The last data line has no line break.
StreamUnterminated(v) ==
  DataLine(Delta(v, <<"A">>)) \o DataPrefix \o Delta(v, <<"B">>)

\* A cut-off payload, null, a lone continuation byte, then a delta.
StreamMalformed(v) ==
  DataLine(<<"{", Q, v, Q, ":">>) \o DataLine(<<"null">>)
  \o DataLine(<<ContByte>>) \o DataLine(Delta(v, <<"B">>))

\* "data:" with no space after the colon: a delta, the sentinel, and a
\* delta after the usual prefix.
StreamNoSpace(v) ==
  <<"data", ":">> \o Delta(v, <<"A">>) \o <<NL>>
  \o <<"data", ":">> \o Sentinel \o <<NL>>
  \o DataLine(Delta(v, <<"B">>))

\* An event-type line, text that is no JSON, a payload with no prefix, and
\* a data line.
StreamNoise(v) ==
  <<"event", ":", " ", "message", NL>> \o <<"not-json-garbage", NL>>
  \o Delta(v, <<"A">>) \o <<NL>> \o DataLine(Delta(v, <<"B">>))

\* {"type":"session","session_id":"s","content":"A"}, then a delta.
StreamSession(v) ==
  DataLine(Obj2(Field("type", Str(<<"session">>)) \o <<",">>
                  \o Field("session_id", Str(<<"s">>)),
                Field(v, Str(<<"A">>))))
  \o DataLine(Delta(v, <<"B">>))

\* The bodies a response can carry.
Streams(v) ==
  {StreamFrames, StreamTokens, StreamSentinel(v), StreamFinished(v),
   StreamUnterminated(v), StreamMalformed(v), StreamNoSpace(v),
   StreamNoise(v), StreamSession(v)}

\* What the user can have typed.
Inputs == {<<>>, <<" ">>, <<" ", "h", "i">>}

-----------------------------------------------------------------------------
(* Regular expressions of MessageContent.jsx.  A text is a sequence of      *)
(* characters.  An expression is matched the way the engine of the          *)
(* language matches it: by backtracking, alternatives in order, a greedy    *)
(* repetition trying one more round first, a lazy one trying to go on       *)
(* first.  Match gives the position after the first match found from pos    *)
(* of the expressions on the stack, one after the other; NoMatch if none.  *)

\* U+0060, which a string of this language cannot hold
BackTick == "BACKTICK"
Dollar == "$"
BackSlash == "\\"
UnderScore == "_"
Ampersand == "&"
Apostrophe == "'"

\* The text of a placeholder after its first underscore, as one character
\* of the model: _CODE_BLOCK_i__ and _MATH_BLOCK_i__.
CodeBody(i) ==
  <<"_CODE_BLOCK_0__", "_CODE_BLOCK_1__", "_CODE_BLOCK_2__", "_CODE_BLOCK_3__",
    "_CODE_BLOCK_4__", "_CODE_BLOCK_5__">>[i + 1]
MathBody(i) ==
  <<"_MATH_BLOCK_0__", "_MATH_BLOCK_1__", "_MATH_BLOCK_2__", "_MATH_BLOCK_3__",
    "_MATH_BLOCK_4__", "_MATH_BLOCK_5__">>[i + 1]

Bodies == {CodeBody(i) : i \in 0..5} \cup {MathBody(i) : i \in 0..5}

Digits == {"5", "4"}
Letters == {"a", "n", "t", "i", "m", "e", "s", "d", "v"}
Others == {BackTick, Dollar, BackSlash, "!", "=", "[", "]", "(", ")", Ampersand, Apostrophe}

\* \w
WordChars == Letters \cup Digits \cup {UnderScore} \cup Bodies

\* [\s\S]
AnyChar == WordChars \cup WhiteSpace \cup Others

Set(chars) == [op |-> "set", s |-> chars]
Not(chars) == [op |-> "set", s |-> AnyChar \ chars]
Lit(text) == [op |-> "lit", t |-> text]
Then(rs) == [op |-> "seq", rs |-> rs]
Alt(rs) == [op |-> "alt", rs |-> rs]
Star(r) == [op |-> "star", r |-> r, lazy |-> FALSE]
LazyStar(r) == [op |-> "star", r |-> r, lazy |-> TRUE]
Plus(r) == Then(<<r, Star(r)>>)
Opt(r) == Alt(<<r, Then(<<>>)>>)
NotBehind(chars) == [op |-> "nlb", s |-> chars]
NotAhead(chars) == [op |-> "nla", s |-> chars]

NoMatch == -1

Occurs(text, pattern, pos) ==
  /\ pos + Len(pattern) - 1 <= Len(text)
  /\ SubSeq(text, pos, pos + Len(pattern) - 1) = pattern

\* how many characters from pos on are in chars
Run(text, chars, pos) ==
  CHOOSE n \in 0..(Len(text) + 1 - pos) :
    /\ \A i \in 0..(n - 1) : text[pos + i] \in chars
    /\ pos + n > Len(text) \/ text[pos + n] \notin chars

Least(ns) == CHOOSE n \in ns : \A m \in ns : n <= m
Most(ns) == CHOOSE n \in ns : \A m \in ns : n >= m

\* the first of two attempts that succeeds
OrElse(first, second) == IF first # NoMatch THEN first ELSE second

\* a repetition of one character class: of the lengths after which the rest
\* matches, the longest for a greedy repetition and the shortest for a lazy
\* one; ends holds <<length, end of the match or NoMatch>> for each length
MatchRunOf(lazy, ends) ==
  IF \A e \in ends : e[2] = NoMatch THEN NoMatch
  ELSE (CHOOSE e \in ends :
          /\ e[2] # NoMatch
          /\ \A f \in ends :
               f[2] # NoMatch => IF lazy THEN e[1] <= f[1] ELSE e[1] >= f[1])[2]

\* The end of the match of the expressions of the stack, one after the
\* other, from pos on, as backtracking finds it: alternatives in their
\* order, a greedy repetition once more before it stops and a lazy one the
\* other way round.
RECURSIVE Match(_, _, _)
Match(text, stack, pos) ==
  CASE stack = <<>> -> pos
    [] stack # <<>> /\ Head(stack).op = "set" ->
         IF pos <= Len(text) /\ text[pos] \in Head(stack).s
         THEN Match(text, Tail(stack), pos + 1) ELSE NoMatch
    [] stack # <<>> /\ Head(stack).op = "lit" ->
         IF Occurs(text, Head(stack).t, pos)
         THEN Match(text, Tail(stack), pos + Len(Head(stack).t)) ELSE NoMatch
    [] stack # <<>> /\ Head(stack).op = "seq" ->
         Match(text, Head(stack).rs \o Tail(stack), pos)
    [] stack # <<>> /\ Head(stack).op = "alt" ->
         OrElse(Match(text, <<Head(stack).rs[1]>> \o Tail(stack), pos),
                IF Len(Head(stack).rs) = 1 THEN NoMatch
                ELSE Match(text, <<Alt(Tail(Head(stack).rs))>> \o Tail(stack), pos))
    [] stack # <<>> /\ Head(stack).op = "star" /\ Head(stack).r.op = "set" ->
         MatchRunOf(Head(stack).lazy,
                    {<<n, Match(text, Tail(stack), pos + n)>> :
                       n \in 0..Run(text, Head(stack).r.s, pos)})
    [] stack # <<>> /\ Head(stack).op = "star" /\ Head(stack).lazy ->
         OrElse(Match(text, Tail(stack), pos),
                Match(text, <<Head(stack).r>> \o stack, pos))
    [] stack # <<>> /\ Head(stack).op = "star" ->
         OrElse(Match(text, <<Head(stack).r>> \o stack, pos),
                Match(text, Tail(stack), pos))
    [] stack # <<>> /\ Head(stack).op = "nlb" ->
         IF pos > 1 /\ text[pos - 1] \in Head(stack).s
         THEN NoMatch ELSE Match(text, Tail(stack), pos)
    [] OTHER ->
         IF pos <= Len(text) /\ text[pos] \in Head(stack).s
         THEN NoMatch ELSE Match(text, Tail(stack), pos)

\* The matches of a /g expression: from left to right, each search starting
\* where the match before it ended.  A match is [a, b]: text[a..b].
RECURSIVE First(_)

\* the characters a match of the expressions rs can begin with (every
\* character, where the model does not look closer)
FirstOf(rs) ==
  IF rs = <<>> \/ Head(rs).op = "star" THEN AnyChar
  ELSE IF Head(rs).op \in {"nlb", "nla"}
       THEN IF Len(rs) = 1 \/ rs[2].op \notin {"set", "lit"} THEN AnyChar
            ELSE First(rs[2])
  ELSE First(Head(rs))

First(r) ==
  IF r.op = "set" THEN r.s
  ELSE IF r.op = "lit" THEN {r.t[1]}
  ELSE IF r.op = "seq" THEN FirstOf(r.rs)
  ELSE IF r.op = "alt" THEN UNION {First(r.rs[i]) : i \in 1..Len(r.rs)}
  ELSE AnyChar

Starts(text, re, pos) ==
  {p \in pos..Len(text) :
     text[p] \in First(re) /\ Match(text, <<re>>, p) \notin {NoMatch, p}}

RECURSIVE Matches(_, _, _)

MatchesFrom(text, re, starts) ==
  IF starts = {} THEN <<>>
  ELSE <<[a |-> Least(starts), b |-> Match(text, <<re>>, Least(starts)) - 1]>>
       \o Matches(text, re, Match(text, <<re>>, Least(starts)))

Matches(text, re, pos) == MatchesFrom(text, re, Starts(text, re, pos))

\* replace(re, by): the text with its k-th match replaced by reps[k]
RECURSIVE Splice(_, _, _, _)
Splice(text, ms, reps, k) ==
  IF k > Len(ms)
  THEN SubSeq(text, IF k = 1 THEN 1 ELSE ms[k - 1].b + 1, Len(text))
  ELSE SubSeq(text, IF k = 1 THEN 1 ELSE ms[k - 1].b + 1, ms[k].a - 1)
       \o reps[k] \o Splice(text, ms, reps, k + 1)

Found(text, re) == Matches(text, re, 1)

Count(text, re) == Len(Found(text, re))

Deleted(text, ms) == Splice(text, ms, [k \in 1..Len(ms) |-> <<>>], 1)

\* The replacement text of replace(pattern, replacement) when the
\* replacement is a string: $$ stands for one $, $& for the match, $ and a
\* backtick for the text before the match, $' for the text after it; any
\* other $ stands for itself (there are no groups to refer to).
RECURSIVE GetSubstitution(_, _, _, _, _)
GetSubstitution(text, pos, matched, replacement, i) ==
  IF i > Len(replacement) THEN <<>>
  ELSE IF replacement[i] # Dollar \/ i = Len(replacement)
       THEN <<replacement[i]>> \o GetSubstitution(text, pos, matched, replacement, i + 1)
  ELSE IF replacement[i + 1] = Dollar
       THEN <<Dollar>> \o GetSubstitution(text, pos, matched, replacement, i + 2)
  ELSE IF replacement[i + 1] = Ampersand
       THEN matched \o GetSubstitution(text, pos, matched, replacement, i + 2)
  ELSE IF replacement[i + 1] = BackTick
       THEN SubSeq(text, 1, pos - 1)
            \o GetSubstitution(text, pos, matched, replacement, i + 2)
  ELSE IF replacement[i + 1] = Apostrophe
       THEN SubSeq(text, pos + Len(matched), Len(text))
            \o GetSubstitution(text, pos, matched, replacement, i + 2)
  ELSE <<Dollar>> \o GetSubstitution(text, pos, matched, replacement, i + 1)

ReplaceAt(text, pattern, replacement, pos) ==
  SubSeq(text, 1, pos - 1)
  \o GetSubstitution(text, pos, pattern, replacement, 1)
  \o SubSeq(text, pos + Len(pattern), Len(text))

\* replace(pattern, replacement) with a string for a pattern: the first
\* occurrence only
StringReplace(text, pattern, replacement) ==
  IF \E pos \in 1..Len(text) : Occurs(text, pattern, pos)
  THEN ReplaceAt(text, pattern, replacement,
                 CHOOSE pos \in 1..Len(text) :
                   /\ Occurs(text, pattern, pos)
                   /\ \A q \in 1..(pos - 1) : ~Occurs(text, pattern, q))
  ELSE text

-----------------------------------------------------------------------------
(* MessageContent.jsx: fixIncompleteMarkdown *)

Fence == <<BackTick, BackTick, BackTick>>
MathFence == <<Dollar, Dollar>>

\* /```[\s\S]*?```/g
CodeBlock == Then(<<Lit(Fence), LazyStar(Set(AnyChar)), Lit(Fence)>>)

\* /\$\$[\s\S]*?\$\$/g
BlockMath == Then(<<Lit(MathFence), LazyStar(Set(AnyChar)), Lit(MathFence)>>)

\* /(?<!\$)\$(?!\$)/g
LoneDollar == Then(<<NotBehind({Dollar}), Set({Dollar}), NotAhead({Dollar})>>)

Odd(n) == n % 2 # 0

\* fixed += closer, when the count is odd
CloseCodeBlock(fixed) ==
  fixed \o IF Odd(Count(fixed, Lit(Fence))) THEN <<NL>> \o Fence ELSE <<>>

\* every backtick counted, those of complete code blocks too
CloseInlineCodeCountingAll(fixed) ==
  fixed \o IF Odd(Count(fixed, Set({BackTick}))) THEN <<BackTick>> ELSE <<>>

CloseInlineCode(fixed) ==
  fixed \o IF Odd(Count(Deleted(fixed, Found(fixed, CodeBlock)), Set({BackTick})))
           THEN <<BackTick>> ELSE <<>>

\* the closer put in front of the text
CloseBlockMathInFront(fixed) ==
  (IF Odd(Count(fixed, Lit(MathFence))) THEN MathFence ELSE <<>>) \o fixed

CloseBlockMath(fixed) ==
  fixed \o IF Odd(Count(fixed, Lit(MathFence))) THEN MathFence ELSE <<>>

CloseInlineMath(fixed) ==
  fixed \o IF Odd(Count(Deleted(fixed, Found(fixed, BlockMath)), LoneDollar))
           THEN <<Dollar>> ELSE <<>>

fixIncompleteMarkdown(content) ==
  IF content = <<>> THEN <<>>
  ELSE CloseInlineMath(CloseBlockMath(CloseInlineCode(CloseCodeBlock(content))))

-----------------------------------------------------------------------------
(* MessageContent.jsx: wrapBareLatex *)

\* /`[^`]+`/g
InlineCode == Then(<<Set({BackTick}), Plus(Not({BackTick})), Set({BackTick})>>)

\* /\$[^$]+\$/g
InlineMath == Then(<<Set({Dollar}), Plus(Not({Dollar})), Set({Dollar})>>)

\* /\\\[([\s\S]*?)\\]/g
DisplayBrackets ==
  Then(<<Lit(<<BackSlash, "[">>), LazyStar(Set(AnyChar)), Lit(<<BackSlash, "]">>)>>)

\* /\\\(([\s\S]*?)\\\)/g
InlineParens ==
  Then(<<Lit(<<BackSlash, "(">>), LazyStar(Set(AnyChar)), Lit(<<BackSlash, ")">>)>>)

\* /\[\s*([^[\]]*?\\[a-zA-Z]+[^[\]]*?)\s*]/g
BracketedCommand ==
  Then(<<Set({"["}), Star(Set(WhiteSpace)),
         LazyStar(Not({"[", "]"})), Set({BackSlash}), Plus(Set(Letters)),
         LazyStar(Not({"[", "]"})),
         Star(Set(WhiteSpace)), Set({"]"})>>)

\* the names of the commands the expressions look for
Command ==
  [times |-> Lit(<<"t", "i", "m", "e", "s">>), cdot |-> Lit(<<"c", "d", "o", "t">>),
   div |-> Lit(<<"d", "i", "v">>), pm |-> Lit(<<"p", "m">>), mp |-> Lit(<<"m", "p">>),
   frac |-> Lit(<<"f", "r", "a", "c">>), sqrt |-> Lit(<<"s", "q", "r", "t">>)]

\* /\\\s+([^\\]*?(?:\\(?:times|cdot|div|pm|mp|frac|sqrt)[^\\]*?)+)\s*\\/g
BackslashSpan ==
  Then(<<Set({BackSlash}), Plus(Set(WhiteSpace)),
         LazyStar(Not({BackSlash})),
         Plus(Then(<<Set({BackSlash}), Alt(<<Command.times, Command.cdot, Command.div, Command.pm,
                           Command.mp, Command.frac, Command.sqrt>>),
                     LazyStar(Not({BackSlash}))>>)),
         Star(Set(WhiteSpace)), Set({BackSlash})>>)

\* (?:=\s*\d+)?
Result == Opt(Then(<<Set({"="}), Star(Set(WhiteSpace)), Plus(Set(Digits))>>))

\* /(?<![\\$`])(\d+\s*(?:\\(?:times|cdot|div)\s*\d+\s*)+(?:=\s*\d+)?)/g
NumberChain ==
  Then(<<NotBehind({BackSlash, Dollar, BackTick}),
         Plus(Set(Digits)), Star(Set(WhiteSpace)),
         Plus(Then(<<Set({BackSlash}), Alt(<<Command.times, Command.cdot, Command.div>>),
                     Star(Set(WhiteSpace)), Plus(Set(Digits)), Star(Set(WhiteSpace))>>)),
         Result>>)

\* /(?<![\\$`])(\w+!\s*=\s*\d+\s*(?:\\(?:times|cdot)\s*\d+\s*)+(?:=\s*\d+)?)/g
Factorial ==
  Then(<<NotBehind({BackSlash, Dollar, BackTick}),
         Plus(Set(WordChars)), Set({"!"}), Star(Set(WhiteSpace)),
         Set({"="}), Star(Set(WhiteSpace)),
         Plus(Set(Digits)), Star(Set(WhiteSpace)),
         Plus(Then(<<Set({BackSlash}), Alt(<<Command.times, Command.cdot>>),
                     Star(Set(WhiteSpace)), Plus(Set(Digits)), Star(Set(WhiteSpace))>>)),
         Result>>)

\* `__CODE_BLOCK_${i}__` and `__MATH_BLOCK_${i}__`
CodePlaceholder(i) == <<UnderScore, CodeBody(i)>>
MathPlaceholder(i) == <<UnderScore, MathBody(i)>>

Matched(text, ms) == [k \in 1..Len(ms) |-> SubSeq(text, ms[k].a, ms[k].b)]

\* codeBlocks.push(match); return the placeholder of its index
SetAsideCode(w, ms) ==
  [codeBlocks |-> w.codeBlocks \o Matched(w.result, ms),
   mathBlocks |-> w.mathBlocks,
   result |-> Splice(w.result, ms,
                     [k \in 1..Len(ms) |-> CodePlaceholder(Len(w.codeBlocks) + k - 1)], 1)]

SetAsideMath(w, ms) ==
  [codeBlocks |-> w.codeBlocks,
   mathBlocks |-> w.mathBlocks \o Matched(w.result, ms),
   result |-> Splice(w.result, ms,
                     [k \in 1..Len(ms) |-> MathPlaceholder(Len(w.mathBlocks) + k - 1)], 1)]

\* the match without its first `left` and last `right` characters, trimmed,
\* between two copies of the delimiter
Wrap(w, ms, delimiter, left, right) ==
  [codeBlocks |-> w.codeBlocks,
   mathBlocks |-> w.mathBlocks,
   result |-> Splice(w.result, ms,
                     [k \in 1..Len(ms) |->
                        delimiter
                        \o Trim(SubSeq(w.result, ms[k].a + left, ms[k].b - right))
                        \o delimiter], 1)]

RECURSIVE RestoreMath(_, _, _)
RestoreMath(result, mathBlocks, i) ==
  IF i >= Len(mathBlocks) THEN result
  ELSE RestoreMath(StringReplace(result, MathPlaceholder(i), mathBlocks[i + 1]),
                   mathBlocks, i + 1)

RECURSIVE RestoreCode(_, _, _)
RestoreCode(result, codeBlocks, i) ==
  IF i >= Len(codeBlocks) THEN result
  ELSE RestoreCode(StringReplace(result, CodePlaceholder(i), codeBlocks[i + 1]),
                   codeBlocks, i + 1)

Step1(w) == SetAsideCode(w, Found(w.result, CodeBlock))
Step2(w) == SetAsideCode(w, Found(w.result, InlineCode))
Step3(w) == SetAsideMath(w, Found(w.result, BlockMath))
Step4(w) == SetAsideMath(w, Found(w.result, InlineMath))
Step5(w) == Wrap(w, Found(w.result, DisplayBrackets), MathFence, 2, 2)
Step6(w) == Wrap(w, Found(w.result, InlineParens), <<Dollar>>, 2, 2)
Step7(w) == Wrap(w, Found(w.result, BracketedCommand), <<Dollar>>, 1, 1)
Step8(w) == Wrap(w, Found(w.result, BackslashSpan), <<Dollar>>, 1, 1)
\* number chains left as they are
Step9Skipped(w) == w

Step9(w) == Wrap(w, Found(w.result, NumberChain), <<Dollar>>, 0, 0)
Step10(w) == Wrap(w, Found(w.result, Factorial), <<Dollar>>, 0, 0)
Restored(w) ==
  RestoreCode(RestoreMath(w.result, w.mathBlocks, 0), w.codeBlocks, 0)

wrapBareLatex(content) ==
  IF content = <<>> THEN <<>>
  ELSE Restored(Step10(Step9(Step8(Step7(Step6(Step5(Step4(Step3(Step2(Step1(
         [result |-> content, codeBlocks |-> <<>>, mathBlocks |-> <<>>])))))))))))

-----------------------------------------------------------------------------
(* MessageContent.jsx: processContent *)

\* the repair applied whatever isStreaming is
processContentRepairing(content, streaming) ==
  IF content = <<>> THEN <<>>
  ELSE fixIncompleteMarkdown(wrapBareLatex(content))

processContent(content, streaming) ==
  IF content = <<>> THEN <<>>
  ELSE IF streaming THEN fixIncompleteMarkdown(wrapBareLatex(content))
  ELSE wrapBareLatex(content)

-----------------------------------------------------------------------------
(* State *)

VARIABLES
  variant,             \* which StreamingChat definition is mounted
  messages,            \* useState([]): <<[role, content], ...>>
  input,               \* useState("")
  isStreaming,         \* useState(false)
  abortControllerRef,  \* useRef(null): 0, or the submit whose controller it holds
  aborted,             \* signal.aborted of each submit's AbortController
  pc,                  \* where each call of handleSubmit stands
  wire,                \* bytes of the response body not yet delivered
  need,                \* the TextDecoder's held-back byte
  buffer,              \* let buffer
  received,            \* history: the bytes delivered so far
  trace,               \* history: what the for loop did with each line so far
  batch,               \* history: what the for loop did in the latest pass
  outcome,             \* history: how each call of handleSubmit ended ("failed with
                       \* text": the notice replaced text already applied)
  lastOp,              \* history: the handler or callback that ran last
  props,               \* MessageContent: its props content and isStreaming
  processedContent,    \* MessageContent: useMemo(processContent(...))
  renders,             \* history: the props and the result of each render
  attachedFiles,       \* useState([]) of the second StreamingChat
  requests,            \* history: the body of each request of handleSubmit
  uploading,           \* FileUpload: useState(false)
  selects,             \* FileUpload: the name chosen at each call of
                       \* handleFileSelect and where that call stands
  removals,            \* FileUpload: the file ids whose DELETE is in flight
  calls                \* history: the calls of the props onFileUploaded,
                       \* onUploadError and onFileRemoved

\* the state of a MessageContent
view == <<props, processedContent, renders>>

\* the state of a FileUpload
fileUpload == <<uploading, selects, removals, calls>>

files == <<attachedFiles, requests, fileUpload>>

vars ==
  <<variant, messages, input, isStreaming, abortControllerRef, aborted, pc,
    wire, need, buffer, received, trace, batch, outcome, lastOp, view, files>>

locals == <<wire, need, buffer, received, trace, batch>>

Init ==
  /\ variant \in Variants
  /\ messages = <<>>
  /\ input = <<>>
  /\ isStreaming = FALSE
  /\ abortControllerRef = 0
  /\ aborted = [s \in Sessions |-> FALSE]
  /\ pc = [s \in Sessions |-> "idle"]
  /\ wire = [s \in Sessions |-> <<>>]
  /\ need = [s \in Sessions |-> <<>>]
  /\ buffer = [s \in Sessions |-> <<>>]
  /\ received = [s \in Sessions |-> <<>>]
  /\ trace = [s \in Sessions |-> <<>>]
  /\ batch = [s \in Sessions |-> <<>>]
  /\ outcome = [s \in Sessions |-> "none"]
  /\ lastOp = "mount"
  /\ props = [content |-> <<>>, isStreaming |-> FALSE]
  /\ processedContent = <<>>
  /\ renders = <<>>
  /\ attachedFiles = <<>>
  /\ requests = <<>>
  /\ uploading = FALSE
  /\ selects = <<>>
  /\ removals = {}
  /\ calls = <<>>

-----------------------------------------------------------------------------
(* handleSubmit, and the steps at which its awaits settle *)

Null == "null"

\* const userMessage = { role: "user", content: input.trim(), files: ... };
\* the first component has no files.
UserMessage(text, attached) ==
  IF variant = "token" THEN [role |-> "user", content |-> text]
  ELSE [role |-> "user", content |-> text,
        files |-> IF Len(attached) > 0 THEN attached ELSE Null]

\* The ids of the attached files, the newest first.
FileIdsNewestFirst(attached) ==
  [i \in 1..Len(attached) |-> attached[Len(attached) + 1 - i].file_id]

\* currentFileIds = attachedFiles.map((f) => f.file_id)
FileIdsOf(attached) == [i \in 1..Len(attached) |-> attached[i].file_id]

\* requestBody: file_ids is added when there is one id or more.  (model_name
\* is the selection of ModelSelector, which is not modelled.)
RequestBody(prompt, attached) ==
  IF variant = "content" /\ Len(attached) > 0
  THEN [prompt |-> prompt, file_ids |-> FileIdsOf(attached)]
  ELSE [prompt |-> prompt]

Placeholder == [role |-> "assistant", content |-> <<>>]

\* A call of handleSubmit that has returned leaves nothing behind.
Cleared(f) == [s \in Sessions |-> IF pc[s] = "done" THEN <<>> ELSE f[s]]

\* The guard without the trim: if (!input || isStreaming) return;
RefusedUntrimmed == input = <<>> \/ isStreaming

\* if (!input.trim() || isStreaming) return;
Refused == Trim(input) = <<>> \/ isStreaming

\* handleSubmit without the streaming flag and without the abort of the
\* request before it.
handleSubmitUnguarded ==
  IF Trim(input) = <<>>
  THEN /\ lastOp' = "handleSubmit:return"
       /\ UNCHANGED <<variant, messages, input, isStreaming, abortControllerRef,
                      aborted, pc, locals, outcome, view, files>>
  ELSE LET s == Len(messages) \div 2 + 1 IN
       /\ s \in Sessions
       /\ abortControllerRef' = s
       /\ messages' =
            messages \o <<UserMessage(Trim(input), attachedFiles), Placeholder>>
       /\ input' = <<>>
       /\ attachedFiles' = <<>>
       /\ requests' = Append(requests, RequestBody(Trim(input), attachedFiles))
       /\ pc' = [pc EXCEPT ![s] = "fetch"]
       /\ wire' = Cleared(wire)
       /\ need' = Cleared(need)
       /\ buffer' = Cleared(buffer)
       /\ received' = Cleared(received)
       /\ trace' = Cleared(trace)
       /\ batch' = Cleared(batch)
       /\ lastOp' = "handleSubmit"
       /\ UNCHANGED <<variant, isStreaming, aborted, outcome, view, fileUpload>>

\* handleSubmit up to its first await (lines 31-51 and 312-351).
handleSubmit ==
  IF Refused
  THEN /\ lastOp' = "handleSubmit:return"
       /\ UNCHANGED <<variant, messages, input, isStreaming, abortControllerRef,
                      aborted, pc, locals, outcome, view, files>>
  ELSE LET s == Len(messages) \div 2 + 1 IN
       /\ s \in Sessions
       /\ aborted' = IF abortControllerRef # 0
                     THEN [aborted EXCEPT ![abortControllerRef] = TRUE]
                     ELSE aborted
       /\ abortControllerRef' = s
       /\ messages' =
            messages \o <<UserMessage(Trim(input), attachedFiles), Placeholder>>
       /\ input' = <<>>
       /\ attachedFiles' = <<>>
       /\ requests' = Append(requests, RequestBody(Trim(input), attachedFiles))
       /\ isStreaming' = TRUE
       /\ pc' = [pc EXCEPT ![s] = "fetch"]
       /\ wire' = Cleared(wire)
       /\ need' = Cleared(need)
       /\ buffer' = Cleared(buffer)
       /\ received' = Cleared(received)
       /\ trace' = Cleared(trace)
       /\ batch' = Cleared(batch)
       /\ lastOp' = "handleSubmit"
       /\ UNCHANGED <<variant, outcome, view, fileUpload>>

\* onChange of the textarea, which is disabled while isStreaming.
onChange ==
  /\ ~isStreaming
  /\ \E text \in Inputs \ {input} : input' = text
  /\ lastOp' = "onChange"
  /\ UNCHANGED <<variant, messages, isStreaming, abortControllerRef, aborted,
                 pc, locals, outcome, view, files>>

\* The call is over without the finally block.
FinallySkipped(s, how) ==
  /\ pc' = [pc EXCEPT ![s] = "done"]
  /\ outcome' = [outcome EXCEPT ![s] = how]
  /\ UNCHANGED <<isStreaming, abortControllerRef>>

\* finally { setIsStreaming(false); abortControllerRef.current = null; }
Finally(s, how) ==
  /\ isStreaming' = FALSE
  /\ abortControllerRef' = 0
  /\ pc' = [pc EXCEPT ![s] = "done"]
  /\ outcome' = [outcome EXCEPT ![s] = how]

\* The locals of a call that has left the try block by an exception.
Dropped(f, s) == [f EXCEPT ![s] = <<>>]

\* catch (error): an AbortError returns, any other error writes the notice.
Catch(s, isAbort) ==
  /\ messages' = IF isAbort THEN messages
                 ELSE ReplaceLast(messages, FailureNotice(variant))
  /\ wire' = Dropped(wire, s)
  /\ need' = Dropped(need, s)
  /\ buffer' = Dropped(buffer, s)
  /\ received' = Dropped(received, s)
  /\ trace' = Dropped(trace, s)
  /\ batch' = Dropped(batch, s)
  /\ Finally(s, IF isAbort THEN "aborted"
                ELSE IF Last(messages).content # <<>> THEN "failed with text"
                ELSE "failed")

\* await fetch(...) resolves: with a body to read, or with a status that
\* makes the handler throw.
FetchResolves(s) ==
  /\ pc[s] = "fetch"
  /\ ~aborted[s]
  /\ \E ok \in BOOLEAN, body \in Streams(variant) :
       IF ok
       THEN /\ pc' = [pc EXCEPT ![s] = "read"]
            /\ wire' = [wire EXCEPT ![s] = body]
            /\ lastOp' = "response"
            /\ UNCHANGED <<variant, messages, input, isStreaming,
                           abortControllerRef, aborted, need, buffer, received,
                           trace, batch, outcome, view, files>>
       ELSE /\ Catch(s, FALSE)
            /\ lastOp' = "catch"
            /\ UNCHANGED <<variant, input, aborted, view, files>>

\* await fetch(...) or await reader.read() rejects: with an AbortError when
\* the controller was aborted, with a transport error otherwise.
Rejects(s) ==
  /\ pc[s] \in {"fetch", "read"}
  /\ Catch(s, aborted[s])
  /\ lastOp' = "catch"
  /\ UNCHANGED <<variant, input, aborted, view, files>>

\* await reader.read() resolves with a chunk: one pass of the while loop.
ReadChunk(s) ==
  /\ pc[s] = "read"
  /\ ~aborted[s]
  /\ \E k \in 1..Len(wire[s]) :
       LET chunk == SubSeq(wire[s], 1, k)
           fed == Feed(need[s], buffer[s], chunk)
           entries == ForLines(variant, fed.lines, FALSE, <<>>)
       IN /\ messages' = ApplyDeltas(messages, entries)
          /\ wire' = [wire EXCEPT ![s] = Slice(@, k)]
          /\ need' = [need EXCEPT ![s] = fed.need]
          /\ buffer' = [buffer EXCEPT ![s] = fed.buffer]
          /\ received' = [received EXCEPT ![s] = @ \o chunk]
          /\ trace' = [trace EXCEPT ![s] = @ \o entries]
          /\ batch' = [batch EXCEPT ![s] = entries]
  /\ lastOp' = "chunk"
  /\ UNCHANGED <<variant, input, isStreaming, abortControllerRef, aborted, pc,
                 outcome, view, files>>

\* await reader.read() resolves with done: break, then the finally block.
ReadDone(s) ==
  /\ pc[s] = "read"
  /\ ~aborted[s]
  /\ wire[s] = <<>>
  /\ Finally(s, "ended")
  /\ lastOp' = "done"
  /\ UNCHANGED <<variant, messages, input, aborted, locals, view, files>>

Next ==
  \/ handleSubmit
  \/ onChange
  \/ \E s \in Sessions : FetchResolves(s)
  \/ \E s \in Sessions : Rejects(s)
  \/ \E s \in Sessions : ReadChunk(s)
  \/ \E s \in Sessions : ReadDone(s)

Spec == Init /\ [][Next]_vars

\* The transport ends what a call of handleSubmit waits for: the stream
\* ends (a read resolves with done), or fetch or a read rejects.
Settles(s) == Rejects(s) \/ ReadDone(s)

\* The transport lets no call wait forever, and the event loop runs the
\* continuation of an await that has settled.
SpecSettling == Spec /\ \A s \in Sessions : WF_vars(Settles(s))

-----------------------------------------------------------------------------
(* FileUpload (FileUpload.jsx), mounted by the second StreamingChat with   *)
(* onFileUploaded = handleFileUploaded, onFileRemoved = handleFileRemoved, *)
(* disabled = isStreaming and no onUploadError: calls records the call     *)
(* expressions onUploadError?.(...) and onFileUploaded?.(...) of each call *)
(* of handleFileSelect.                                                    *)
(*                                                                         *)
(* A file name is a sequence of characters in which a word that the code   *)
(* does not look into is one character: "notes.TXT" is three characters.   *)

\* Number of files a behaviour may choose.
MaxSelects == 3

allowedExtensions ==
  {<<".", e>> : e \in
     {"txt", "pdf", "docx", "pptx", "xlsx", "md", "markdown", "py", "js",
      "ts", "jsx", "tsx", "vue", "svelte", "rs", "go", "java", "kt", "scala",
      "c", "cpp", "cc", "cxx", "h", "hpp", "hxx", "cs", "fs", "rb", "php",
      "pl", "pm", "swift", "m", "mm", "r", "jl", "lua", "tcl", "awk", "sed",
      "hs", "ml", "elm", "clj", "cljs", "ex", "exs", "sh", "bash", "zsh",
      "fish", "bat", "cmd", "ps1", "sql", "prisma", "graphql", "gql", "html",
      "htm", "css", "scss", "sass", "less", "xml", "xsl", "xslt", "json",
      "yaml", "yml", "toml", "ini", "cfg", "conf", "log", "env", "makefile",
      "cmake", "dockerfile", "gitignore", "editorconfig"}}

\* The names a user chooses from: notes.TXT, a.py.exe and Makefile.
FileNames ==
  {<<"notes", ".", "TXT">>, <<"a", ".", "py", ".", "exe">>, <<"Makefile">>}

\* e.target.files is empty
NoFile == <<>>

\* The file ids the server answers an upload with.
FileIds == {1, 2}

\* How await fetch(".../upload") and the awaits after it come out.
UploadOutcomes ==
  {"ok", "ok, no object", "not ok", "not ok, no JSON", "rejects"}

\* String.prototype.toLowerCase
toLowerCase(text) ==
  [i \in 1..Len(text) |->
     CASE text[i] = "TXT" -> "txt"
       [] text[i] = "Makefile" -> "makefile"
       [] OTHER -> text[i]]

\* name.split(".").pop(): what follows the last dot, or all of a name
\* without one
Pop(name) ==
  LET dots == {i \in 1..Len(name) : name[i] = "."}
  IN IF dots = {} THEN name
     ELSE SubSeq(name, (CHOOSE i \in dots : \A j \in dots : j <= i) + 1, Len(name))

\* what follows the first dot, up to the next one
Second(name) ==
  LET dots == {i \in 1..Len(name) : name[i] = "."}
      first == CHOOSE i \in dots : \A j \in dots : i <= j
  IN IF dots = {} THEN name
     ELSE SubSeq(name, first + 1,
                 IF dots = {first} THEN Len(name)
                 ELSE (CHOOSE i \in dots \ {first} :
                         \A j \in dots \ {first} : i <= j) - 1)

\* "." + file.name.split(".")[1].toLowerCase()
ExtAfterFirstDot(name) == <<".">> \o toLowerCase(Second(name))

\* const ext = "." + file.name.split(".").pop().toLowerCase();
Ext(name) == <<".">> \o toLowerCase(Pop(name))

\* <input type="file" disabled={disabled}>
DisabledByParent == isStreaming

\* <input type="file" disabled={disabled || uploading}>
Disabled == isStreaming \/ uploading

\* what the steps of a FileUpload leave alone
conversation ==
  <<variant, messages, input, isStreaming, abortControllerRef, aborted, pc,
    locals, outcome, view, requests>>

\* onChange of the file input: handleFileSelect up to its await.
handleFileSelect ==
  /\ ~Disabled
  /\ Len(selects) < MaxSelects
  /\ \E file \in FileNames \cup {NoFile} :
       IF file = NoFile
       THEN /\ lastOp' = "handleFileSelect:return"
            /\ UNCHANGED <<uploading, selects, calls>>
       ELSE IF Ext(file) \notin allowedExtensions
       THEN /\ selects' = Append(selects, [name |-> file, pc |-> "unsupported"])
            /\ calls' = Append(calls, <<[fn |-> "onUploadError",
                                         error |-> "Unsupported file type"]>>)
            /\ lastOp' = "handleFileSelect:unsupported"
            /\ UNCHANGED uploading
       ELSE /\ uploading' = TRUE
            /\ selects' = Append(selects, [name |-> file, pc |-> "fetch"])
            /\ calls' = Append(calls, <<>>)
            /\ lastOp' = "handleFileSelect"
  /\ UNCHANGED <<conversation, attachedFiles, removals>>

\* handleFileSelect from its await on: the response is OK and its body is
\* an object, which handleFileUploaded appends to attachedFiles; or the
\* response is not OK and its body is JSON; or fetch or json() rejects or
\* the body is no object, and the catch block runs.  Then the finally block.
UploadSettles(k) ==
  /\ selects[k].pc = "fetch"
  /\ \E how \in UploadOutcomes, id \in FileIds :
       /\ selects' = [selects EXCEPT ![k].pc = how]
       /\ calls' =
            [calls EXCEPT ![k] =
               Append(@, CASE how = "ok" -> [fn |-> "onFileUploaded", file_id |-> id]
                           [] how = "not ok" ->
                                [fn |-> "onUploadError", error |-> "errorData"]
                           [] OTHER ->
                                [fn |-> "onUploadError", error |-> "Upload failed"])]
       /\ attachedFiles' =
            IF how = "ok"
            THEN Append(attachedFiles,
                        [file_id |-> id, filename |-> selects[k].name, upload |-> k])
            ELSE attachedFiles
  /\ uploading' = FALSE
  /\ lastOp' = "upload"
  /\ UNCHANGED <<conversation, removals>>

\* onClick of the remove button of an attached file, which is disabled
\* while isStreaming: handleRemove up to its await.
handleRemove ==
  /\ ~isStreaming
  /\ \E i \in 1..Len(attachedFiles) :
       removals' = removals \cup {attachedFiles[i].file_id}
  /\ lastOp' = "handleRemove"
  /\ UNCHANGED <<conversation, attachedFiles, uploading, selects, calls>>

\* handleRemove from its await on, whether the DELETE succeeded or not:
\* onFileRemoved, which is handleFileRemoved.
handleFileRemoved(fileId) ==
  /\ fileId \in removals
  /\ removals' = removals \ {fileId}
  /\ attachedFiles' = SelectSeq(attachedFiles, LAMBDA f : f.file_id # fileId)
  /\ lastOp' = "handleFileRemoved"
  /\ UNCHANGED <<conversation, uploading, selects, calls>>

\* The second StreamingChat with its FileUpload.  What a response body does
\* to the messages is the subject of Spec and touches none of the state of
\* the files, so here a request ends at its fetch, by a rejection.
InitFiles == Init /\ variant = "content"

NextFiles ==
  \/ handleSubmit
  \/ onChange
  \/ \E s \in Sessions : Rejects(s)
  \/ handleFileSelect
  \/ \E k \in 1..Len(selects) : UploadSettles(k)
  \/ handleRemove
  \/ \E fileId \in FileIds : handleFileRemoved(fileId)

SpecFiles == InitFiles /\ [][NextFiles]_vars

-----------------------------------------------------------------------------
(* MessageContent.  The component is rendered with a raw text for content; *)
(* it is rendered again when the stream of its message ends, and the text  *)
(* it shows may come back to it as the content of another render.          *)

\* 5 \times 4
Chain == <<"5", " ", BackSlash, "t", "i", "m", "e", "s", " ", "4">>

\* \[ and \], which a text such as \[a\] or \[5 \times 4\] is made with
OpenDisplay == <<BackSlash, "[">>
CloseDisplay == <<BackSlash, "]">>

Pieces ==
  {<<BackTick>>, Fence, <<Dollar>>, <<"a">>, Chain, OpenDisplay, CloseDisplay}

MaxPieces == 4
MaxChains == 2
MaxRenders == 2

\* the texts of n pieces, at most chains of them number chains
RECURSIVE RawOf(_, _)
RawOf(n, chains) ==
  IF n = 0 THEN {<<>>}
  ELSE {piece \o text : piece \in Pieces \ {Chain}, text \in RawOf(n - 1, chains)}
       \cup IF chains = 0 THEN {}
            ELSE {Chain \o text : text \in RawOf(n - 1, chains - 1)}

RawTexts == UNION {RawOf(n, MaxChains) : n \in 0..MaxPieces}

chat ==
  <<variant, messages, input, isStreaming, abortControllerRef, aborted, pc,
    wire, need, buffer, received, trace, batch, outcome, lastOp, files>>

Rendered == [props |-> props, processedContent |-> processedContent]

MessageContent(content, streaming) ==
  /\ props' = [content |-> content, isStreaming |-> streaming]
  /\ processedContent' = processContent(content, streaming)
  /\ renders' = Append(renders, Rendered')
  /\ UNCHANGED chat

InitMessageContent ==
  /\ variant = "content"
  /\ messages = <<>>
  /\ input = <<>>
  /\ isStreaming = FALSE
  /\ abortControllerRef = 0
  /\ aborted = [s \in Sessions |-> FALSE]
  /\ pc = [s \in Sessions |-> "idle"]
  /\ wire = [s \in Sessions |-> <<>>]
  /\ need = [s \in Sessions |-> <<>>]
  /\ buffer = [s \in Sessions |-> <<>>]
  /\ received = [s \in Sessions |-> <<>>]
  /\ trace = [s \in Sessions |-> <<>>]
  /\ batch = [s \in Sessions |-> <<>>]
  /\ outcome = [s \in Sessions |-> "none"]
  /\ lastOp = "mount"
  /\ attachedFiles = <<>>
  /\ requests = <<>>
  /\ uploading = FALSE
  /\ selects = <<>>
  /\ removals = {}
  /\ calls = <<>>
  /\ \E content \in RawTexts, streaming \in BOOLEAN :
       /\ props = [content |-> content, isStreaming |-> streaming]
       /\ processedContent = processContent(content, streaming)
       /\ renders = <<Rendered>>

\* the stream of the message ends: isStreaming turns false
StreamEnds ==
  /\ Len(renders) < MaxRenders
  /\ props.isStreaming
  /\ MessageContent(props.content, FALSE)

\* the text shown is the content of another render
ShownAgain ==
  /\ Len(renders) < MaxRenders
  /\ \E streaming \in BOOLEAN : MessageContent(processedContent, streaming)

NextMessageContent == StreamEnds \/ ShownAgain

SpecMessageContent == InitMessageContent /\ [][NextMessageContent]_vars

-----------------------------------------------------------------------------
(* Properties.  A call of handleSubmit is named by the number of its turn;   *)
(* its answer is the assistant message it appended.  The history variables  *)
(* of a call are kept from its first chunk until the next submit, and are   *)
(* dropped when the call leaves the try block by an exception.              *)

Answer(s) == messages[2 * s].content

Kept(s) == received[s] # <<>>

Active(s) == pc[s] \in {"fetch", "read"}

IsDelta(e) == e.kind = "delta"

\* The texts of the deltas among entries, concatenated in order.
RECURSIVE Texts(_)
Texts(entries) ==
  IF entries = <<>> THEN <<>>
  ELSE (IF IsDelta(Head(entries)) THEN Head(entries).text ELSE <<>>)
       \o Texts(Tail(entries))

LinesOf(entries) == [i \in 1..Len(entries) |-> entries[i].line]

\* What each line carries, looked at on its own.
Each(v, lines) == [i \in 1..Len(lines) |-> Line(v, lines[i])]

\* The bytes fed to a fresh decoder and an empty buffer as one chunk.
Single(bytes) == Feed(<<>>, <<>>, bytes)

EndsWith(s, t) ==
  Len(t) <= Len(s) /\ SubSeq(s, Len(s) - Len(t) + 1, Len(s)) = t

\* C1: in the component that appends `content`, after any sequence of chunks
\* the answer is the concatenation, in arrival order, of the deltas carried
\* by the complete lines of the bytes received so far, each exactly once.
ContentIsConcatenationOfDeltas ==
  variant = "content" =>
    \A s \in Sessions :
      Kept(s) => Answer(s) = Texts(Each("content", Single(received[s]).lines))

\* C1 witness: one pass of the loop has applied two deltas or more.
SeveralDeltasInOnePass ==
  /\ variant = "content"
  /\ \E s \in Sessions :
       /\ pc[s] = "read"
       /\ Len(SelectSeq(batch[s], IsDelta)) >= 2
       /\ Len(Answer(s)) >= 2

\* C2: however the bytes received so far were cut into chunks, the lines the
\* loop has seen, the buffer and the decoder's held-back byte are those of
\* the same bytes fed as a single chunk.
FramesIndependentOfChunking ==
  \A s \in Sessions :
    Kept(s) =>
      /\ LinesOf(trace[s]) = Single(received[s]).lines
      /\ buffer[s] = Single(received[s]).buffer
      /\ need[s] = Single(received[s]).need

\* C2 witness: a chunk has ended inside a two-byte character, inside a
\* payload, after earlier lines were complete.
SplitInsideCharacter ==
  \E s \in Sessions :
    /\ need[s] = <<LeadByte>>
    /\ StartsWith(buffer[s], DataPrefix)
    /\ trace[s] # <<>>

Applied(entries) ==
  LET d == SelectSeq(entries, IsDelta)
  IN [i \in 1..Len(d) |-> [line |-> d[i].line, text |-> d[i].text]]

\* C3: for the bytes received so far, the deltas applied and the answer are
\* those of the same bytes fed as a single chunk, whatever the chunking.
AppliedIndependentOfChunking ==
  \A s \in Sessions :
    Kept(s) =>
      LET whole == ForLines(variant, Single(received[s]).lines, FALSE, <<>>)
      IN /\ Applied(trace[s]) = Applied(whole)
         /\ Answer(s) = Texts(whole)

Superseded(s) == \E t \in Sessions : t > s /\ pc[t] # "idle"

AtMostOneLoop == Cardinality({s \in Sessions : Active(s)}) <= 1

SubmitStep == lastOp' \in {"handleSubmit", "handleSubmit:return"}

SentinelStopsLoop ==
  \A s \in Sessions :
    \A i \in 1..Len(trace[s]) :
      trace[s][i].kind = "sentinel" =>
        /\ ~(pc[s] = "read" /\ isStreaming)
        /\ \A j \in (i + 1)..Len(trace[s]) : ~IsDelta(trace[s][j])

\* is_finished of the payload of a line is truthy.
FinishedFlag(line) ==
  LET t == Trim(line)
      data == IF StartsWith(t, DataPrefix) THEN Trim(Slice(t, Len(DataPrefix))) ELSE t
      parsed == JSONparse(data)
  IN parsed.ok /\ ~IsNull(parsed) /\ Truthy(Member(parsed, <<"is_finished">>))

\* C8: once the loop has parsed a payload whose is_finished is true, no delta
\* of a later line is applied, in the same chunk or in a later one.
FinishedEndsLoop ==
  \A s \in Sessions :
    \A i \in 1..Len(trace[s]) :
      trace[s][i].kind \in {"delta", "silent"} /\ FinishedFlag(trace[s][i].line) =>
        \A j \in (i + 1)..Len(trace[s]) : ~IsDelta(trace[s][j])

\* C9: when the stream has ended, the loop has processed every line of the
\* bytes received, the unterminated last one included, and a delta that the
\* last one carries is applied.
FragmentProcessedAtEnd ==
  \A s \in Sessions :
    pc[s] = "done" /\ outcome[s] = "ended" /\ Kept(s) =>
      LET one == Single(received[s])
          last == Line(variant, one.buffer)
      IN /\ LinesOf(trace[s])
              = one.lines \o (IF one.buffer # <<>> THEN <<one.buffer>> ELSE <<>>)
         /\ IsDelta(last) => EndsWith(Answer(s), last.text)

\* A break that a true is_finished made.
FinishedBreak(e) == e.brk /\ e.kind # "malformed"

\* C10: a line whose payload does not parse adds nothing to the answer,
\* writes no notice and does not leave the loop: the answer is the deltas
\* applied, and every later line that no is_finished break cuts off is
\* processed as it would be on its own.
MalformedIsSkippedSilently ==
  \A s \in Sessions :
    Kept(s) =>
      /\ Answer(s) = Texts(trace[s])
      /\ \A i \in 1..Len(trace[s]) :
           trace[s][i].kind = "malformed" =>
             /\ trace[s][i].text = <<>>
             /\ \A j \in (i + 1)..Len(trace[s]) :
                  (\A k \in i..(j - 1) : ~FinishedBreak(trace[s][k])) =>
                    trace[s][j] = Line(variant, trace[s][j].line)

\* C10 witness: the loop is still reading and has applied a delta of a line
\* that came after a line whose payload did not parse.
DeltaAfterMalformed ==
  \E s \in Sessions :
    /\ pc[s] = "read"
    /\ \E i, j \in 1..Len(trace[s]) :
         /\ i < j
         /\ trace[s][i].kind = "malformed"
         /\ IsDelta(trace[s][j])
         /\ Answer(s) = trace[s][j].text

Failed(s) == outcome[s] \in {"failed", "failed with text"}

\* The step in which call s goes through the catch block with an error that
\* is no AbortError.
Fails(s) == ~Failed(s) /\ Failed(s)'

\* C11: when the request is refused, fetch fails or a read fails, the answer
\* of the turn becomes the failure notice and nothing else, the streaming
\* flag becomes false, and the call is over: no new request is opened, no
\* message is added, and the answer stays the notice.
FailureWritesNotice ==
  /\ [](\A s \in Sessions :
          Failed(s) => pc[s] = "done" /\ Answer(s) = FailureNotice(variant))
  /\ [][\A s \in Sessions :
          Fails(s) =>
            /\ ~isStreaming'
            /\ abortControllerRef' = 0
            /\ Len(messages') = Len(messages)
            /\ \A t \in Sessions : pc'[t] = "fetch" => pc[t] = "fetch"]_vars

\* C11 witness: a call has just failed after text had been applied, and the
\* answer is the notice.
FailedAfterText ==
  \E s \in Sessions :
    /\ outcome[s] = "failed with text"
    /\ lastOp = "catch"
    /\ Answer(s) = FailureNotice(variant)
    /\ ~isStreaming

IsPrefix(s, t) == Len(s) <= Len(t) /\ SubSeq(t, 1, Len(s)) = s

\* C13 as stated: on every step, the answer of a turn has the answer before
\* the step as a prefix.
AnswerAppendOnly ==
  [][\A s \in Sessions :
       pc[s] # "idle" => IsPrefix(Answer(s), Answer(s)')]_vars

\* C13: on every step, the answer of a turn has the answer before the step
\* as a prefix, except on the step in which the call fails, which replaces
\* the answer by the failure notice.
AnswerAppendOnlyUntilFailure ==
  [][\A s \in Sessions :
       pc[s] # "idle" =>
         \/ IsPrefix(Answer(s), Answer(s)')
         \/ Fails(s) /\ Answer(s)' = FailureNotice(variant)]_vars

\* C13 witness: a turn is growing its answer by deltas after the turn before
\* it lost its text to the notice.
GrowsAfterReplacedAnswer ==
  \E s, t \in Sessions :
    /\ s < t
    /\ outcome[s] = "failed with text"
    /\ pc[t] = "read"
    /\ Len(SelectSeq(trace[t], IsDelta)) >= 2
    /\ Answer(t) = Texts(trace[t])

\* The non-empty text a data line carries under the content field or, when
\* it has none there, under the token field; <<>> when it carries none.
CandidateText(line) ==
  LET t == Trim(line)
      parsed == JSONparse(Trim(Slice(t, Len(DataPrefix))))
  IN IF ~StartsWith(t, DataPrefix) \/ ~parsed.ok \/ IsNull(parsed) THEN <<>>
     ELSE IF OrEmpty(Member(parsed, <<"content">>)) # <<>>
          THEN OrEmpty(Member(parsed, <<"content">>))
     ELSE OrEmpty(Member(parsed, <<"token">>))

\* C14: a data line that the loop looks at and whose payload has non-empty
\* text under the content field or the token field yields one delta with
\* that text.
EitherFieldYieldsDelta ==
  \A s \in Sessions :
    \A i \in 1..Len(trace[s]) :
      trace[s][i].kind # "skipped" /\ CandidateText(trace[s][i].line) # <<>> =>
        IsDelta(trace[s][i]) /\ trace[s][i].text = CandidateText(trace[s][i].line)

\* "data:", the prefix without the space.
BarePrefix == <<"data", ":">>

Seen(e) == e.kind # "skipped"

\* C15: a line that begins with "data:" and no space is handled as the same
\* line with the space: the same kind of event with the same text, the
\* sentinel included.
SpaceAfterColonIsOptional ==
  \A s \in Sessions :
    \A i \in 1..Len(trace[s]) :
      LET e == trace[s][i]
          spaced == Line(variant, DataPrefix \o Slice(e.line, Len(BarePrefix)))
      IN Seen(e) /\ StartsWith(e.line, BarePrefix) /\ ~StartsWith(e.line, DataPrefix) =>
           e.kind = spaced.kind /\ e.text = spaced.text

EventPrefix == <<"event", ":">>

Unprefixed(line) == ~StartsWith(Trim(line), BarePrefix)

\* C16 as stated: a line that does not begin with the data prefix, an
\* event-type line included, yields no delta and does not leave the loop.
UnprefixedLineIsIgnored ==
  \A s \in Sessions :
    \A i \in 1..Len(trace[s]) :
      Seen(trace[s][i]) /\ Unprefixed(trace[s][i].line) =>
        ~IsDelta(trace[s][i]) /\ ~trace[s][i].brk

\* C16: a line that does not begin with the data prefix is ignored by the
\* component that reads `content`; the component that reads `token` parses
\* it as a payload, so it yields a delta or a break only when it is JSON,
\* the delta being its token; an event-type line yields nothing in either.
UnprefixedLineIsIgnoredUnlessJSON ==
  \A s \in Sessions :
    \A i \in 1..Len(trace[s]) :
      LET e == trace[s][i]
          bare == JSONparse(Trim(e.line))
      IN Seen(e) /\ Unprefixed(e.line) =>
           /\ variant = "content" => e.kind = "ignored"
           /\ IsDelta(e) \/ e.brk => variant = "token" /\ bare.ok /\ ~IsNull(bare)
           /\ IsDelta(e) => e.text = OrEmpty(Member(bare, <<"token">>))
           /\ StartsWith(Trim(e.line), EventPrefix) => ~IsDelta(e) /\ ~e.brk

\* C16 witness: the component that reads `token` is still reading after an
\* event-type line and a line of plain text that yielded nothing and a
\* payload without prefix that yielded a delta.
BareJSONApplied ==
  \E s \in Sessions :
    /\ variant = "token"
    /\ pc[s] = "read"
    /\ \E i, j, k \in 1..Len(trace[s]) :
         /\ i < j /\ j < k
         /\ StartsWith(trace[s][i].line, EventPrefix)
         /\ trace[s][i].kind = "malformed"
         /\ trace[s][j].kind = "malformed"
         /\ Unprefixed(trace[s][k].line)
         /\ IsDelta(trace[s][k])

\* The payload of a data line has a session_id member.
SessionMarker(line) ==
  LET parsed == JSONparse(Trim(Slice(Trim(line), Len(DataPrefix))))
  IN /\ StartsWith(Trim(line), DataPrefix)
     /\ parsed.ok
     /\ ~IsNull(parsed)
     /\ Member(parsed, <<"session_id">>) # Undefined

\* C17: a payload that carries the session marker yields no delta, also when
\* it has non-empty text under the content or token field.
SessionMarkerTakesPrecedence ==
  \A s \in Sessions :
    \A i \in 1..Len(trace[s]) :
      Seen(trace[s][i]) /\ SessionMarker(trace[s][i].line) => ~IsDelta(trace[s][i])

-----------------------------------------------------------------------------
(* MessageContent: sanitize(raw, isStreaming) is processContent.  Render i  *)
(* was given Given(i) and showed Shown(i); it sanitized the text shown by   *)
(* the render before it when Again(i).                                      *)

Given(i) == renders[i].props.content
Streaming(i) == renders[i].props.isStreaming
Shown(i) == renders[i].processedContent
Again(i) == i > 1 /\ Given(i) = Shown(i - 1)

\* C18: sanitizing a finalized text a second time changes nothing:
\* sanitize(sanitize(x, false), false) = sanitize(x, false) for every x.
SanitizeIsIdempotent ==
  \A i \in 2..Len(renders) :
    Again(i) /\ ~Streaming(i - 1) /\ ~Streaming(i) => Shown(i) = Shown(i - 1)

\* every code fence, inline code span, block math and inline math delimiter
\* of the text is paired
Paired(text) ==
  /\ ~Odd(Count(text, Lit(Fence)))
  /\ ~Odd(Count(Deleted(text, Found(text, CodeBlock)), Set({BackTick})))
  /\ ~Odd(Count(text, Lit(MathFence)))
  /\ ~Odd(Count(Deleted(text, Found(text, BlockMath)), LoneDollar))

\* C19: for a raw text whose delimiters are all paired, sanitizing for a
\* finalized message what was shown while streaming gives what sanitizing
\* the raw text for a finalized message gives:
\* sanitize(sanitize(raw, true), false) = sanitize(raw, false).
StableOncePaired ==
  \A i \in 2..Len(renders) :
    Again(i) /\ Streaming(i - 1) /\ ~Streaming(i) /\ Paired(Given(i - 1))
      => Shown(i) = processContent(Given(i - 1), FALSE)

Fences(text) == Count(text, Lit(Fence))

\* C20: a text with an odd number of code fences is shown, while streaming,
\* with an even number of them.
OddFencesAreClosed ==
  \A i \in 1..Len(renders) :
    Streaming(i) /\ Odd(Fences(Given(i))) => ~Odd(Fences(Shown(i)))

\* texts without a delimiter: letters and number chains
Words == {<<"a">>, Chain}
WordLists == UNION {[1..n -> Words] : n \in 0..MaxPieces}

RECURSIVE Joined(_)
Joined(words) ==
  IF words = <<>> THEN <<>> ELSE Head(words) \o Joined(Tail(words))

\* the words, each longest run of number chains between two dollars
RECURSIVE InMath(_, _)
InMath(words, open) ==
  IF words = <<>> THEN IF open THEN <<Dollar>> ELSE <<>>
  ELSE IF Head(words) = Chain
       THEN (IF open THEN <<>> ELSE <<Dollar>>)
              \o Chain \o InMath(Tail(words), TRUE)
       ELSE (IF open THEN <<Dollar>> ELSE <<>>)
              \o Head(words) \o InMath(Tail(words), FALSE)

RepairOnlyWhileStreaming ==
  \A i \in 1..Len(renders) :
    /\ ~Streaming(i) => Shown(i) = wrapBareLatex(Given(i))
    /\ Streaming(i) => Shown(i) = fixIncompleteMarkdown(wrapBareLatex(Given(i)))

\* C25 witness: a text was shown with a closing delimiter while streaming
\* and without it once finalized, and repairing the raw text before the
\* rewriting would have shown something else.
CloserOnlyWhileStreaming ==
  /\ Len(renders) = 2
  /\ Streaming(1) /\ ~Streaming(2)
  /\ Given(2) = Given(1)
  /\ Shown(2) = wrapBareLatex(Given(1))
  /\ Shown(1) # Shown(2)
  /\ Shown(1) # wrapBareLatex(fixIncompleteMarkdown(Given(1)))
  /\ Shown(1) # fixIncompleteMarkdown(Given(1))

\* the whole text is one region that wrapBareLatex sets aside
Region(text) ==
  \E re \in {CodeBlock, InlineCode, BlockMath, InlineMath} :
    Match(text, <<re>>, 1) = Len(text) + 1

\* C22: a region that wrapBareLatex sets aside comes back character for
\* character: a finalized text that is one complete code block, inline
\* code span, block math or inline math is shown unchanged, whatever the
\* region holds.
RegionsComeBackUnchanged ==
  \A i \in 1..Len(renders) :
    ~Streaming(i) /\ Region(Given(i)) => Shown(i) = Given(i)

\* C23: what one step of wrapBareLatex wrote is not rewritten by a later
\* step: bracketed display math \[ ... \] holding letters and number
\* chains is shown as the same text between one pair of $$, and nothing
\* more.
RewrittenOnce ==
  \A i \in 1..Len(renders) :
    ~Streaming(i) =>
      \A words \in WordLists :
        Given(i) = OpenDisplay \o Joined(words) \o CloseDisplay
          => Shown(i) = MathFence \o Joined(words) \o MathFence

\* C24: the text after a code fence that has not been closed yet is left
\* alone: while streaming, a text that opens with its only fence is shown
\* as it is, followed by the closing fence.
OpenFenceIsLeftAlone ==
  \A i \in 1..Len(renders) :
    /\ Streaming(i)
    /\ Fences(Given(i)) = 1
    /\ SubSeq(Given(i), 1, Len(Fence)) = Fence
    => Shown(i) = Given(i) \o <<NL>> \o Fence

\* the text fixIncompleteMarkdown is given: the output of wrapBareLatex
Rewritten(i) == wrapBareLatex(Given(i))

\* Delimiters counted by position.  A delimiter of width characters c is
\* found from left to right, each search starting after the one before, so
\* in a run of k characters c there is one at every width-th place.
Behind(text, c, p) ==
  CHOOSE n \in 0..(p - 1) :
    /\ \A k \in 1..n : text[p - k] = c
    /\ n = p - 1 \/ text[p - n - 1] # c

DelimitersAt(text, c, width) ==
  {p \in 1..(Len(text) - width + 1) :
     /\ \A k \in 0..(width - 1) : text[p + k] = c
     /\ Behind(text, c, p) % width = 0}

\* the complete spans: the first delimiter with the second, the third with
\* the fourth, and so on
SpansOf(at) ==
  {s \in at \X at :
     /\ s[1] < s[2]
     /\ ~Odd(Cardinality({f \in at : f < s[1]}))
     /\ ~\E f \in at : s[1] < f /\ f < s[2]}

\* the places of the text outside its complete spans
Outside(text, c, width) ==
  {p \in 1..Len(text) :
     ~\E s \in SpansOf(DelimitersAt(text, c, width)) :
        s[1] <= p /\ p <= s[2] + width - 1}

\* the place p holds c and so does the place kept before or after it
Doubled(text, c, kept, p) ==
  \/ \E q \in kept : q < p /\ text[q] = c /\ \A r \in kept : r < p => r <= q
  \/ \E q \in kept : q > p /\ text[q] = c /\ \A r \in kept : r > p => r >= q

LoneIn(text, c, kept) ==
  {p \in kept : text[p] = c /\ ~Doubled(text, c, kept, p)}

FencesIn(text) == Cardinality(DelimitersAt(text, BackTick, 3))
BackTicksOutsideBlocks(text) ==
  Cardinality({p \in Outside(text, BackTick, 3) : text[p] = BackTick})
MathFencesIn(text) == Cardinality(DelimitersAt(text, Dollar, 2))
LoneDollarsOutsideBlocks(text) ==
  Cardinality(LoneIn(text, Dollar, Outside(text, Dollar, 2)))

WithFence(text) ==
  text \o IF Odd(FencesIn(text)) THEN <<NL>> \o Fence ELSE <<>>
WithBackTick(text) ==
  text \o IF Odd(BackTicksOutsideBlocks(text)) THEN <<BackTick>> ELSE <<>>
WithMathFence(text) ==
  text \o IF Odd(MathFencesIn(text)) THEN MathFence ELSE <<>>
WithDollar(text) ==
  text \o IF Odd(LoneDollarsOutsideBlocks(text)) THEN <<Dollar>> ELSE <<>>

\* C27: the repair counts fences, then backticks that are not inside a
\* complete fenced span, then $$, then lone dollars that are not part of a
\* $$ and not inside a complete $$ span; each count is taken on the text
\* with the closers of the counts before it, and an odd count appends one
\* closer of its kind.
RepairCountsOutsideSpans ==
  \A i \in 1..Len(renders) :
    Streaming(i) =>
      Shown(i) = WithDollar(WithMathFence(WithBackTick(WithFence(Rewritten(i)))))

\* C27 witness: a streaming text whose only backtick outside the fences is
\* inside the complete fenced span: it is not counted, nothing is appended.
BackTickInsideBlockNotCounted ==
  \E i \in 1..Len(renders) :
    /\ Streaming(i)
    /\ Given(i) = Fence \o <<BackTick, "a">> \o Fence
    /\ Shown(i) = Given(i)

\* C28: what the repair shows is balanced the way the repair counts, and
\* repairing it again appends nothing.
RepairedIsBalanced ==
  \A i \in 1..Len(renders) :
    Streaming(i) =>
      /\ Paired(Shown(i))
      /\ fixIncompleteMarkdown(Shown(i)) = Shown(i)

\* the closers, in the order of the checks
Closers == <<<<NL>> \o Fence, <<BackTick>>, MathFence, <<Dollar>>>>

Closer(chosen, k) == IF k \in chosen THEN Closers[k] ELSE <<>>

\* C29: the repair only appends: what is shown while streaming is the text
\* the repair was given followed by some of the four closers, in the order
\* of the checks.
RepairOnlyAppends ==
  \A i \in 1..Len(renders) :
    Streaming(i) =>
      \E chosen \in SUBSET (1..4) :
        Shown(i) = Rewritten(i) \o Closer(chosen, 1) \o Closer(chosen, 2)
                     \o Closer(chosen, 3) \o Closer(chosen, 4)

\* C29 witness: a streaming text shown with three closers appended, a
\* backtick, $$ and a dollar.
ThreeClosersAppended ==
  \E i \in 1..Len(renders) :
    /\ Streaming(i)
    /\ Shown(i) = Rewritten(i) \o <<BackTick>> \o MathFence \o <<Dollar>>

-----------------------------------------------------------------------------
(* StreamingChat: the message list and the owner of the streaming state *)

Alternating ==
  /\ ~Odd(Len(messages))
  /\ \A k \in 1..Len(messages) :
       messages[k].role = IF Odd(k) THEN "user" ELSE "assistant"

\* a step leaves the number of messages alone, or it is an accepted submit
\* and appends the user message and an empty assistant message
GrowsBySubmitOnly ==
  \/ Len(messages') = Len(messages)
  \/ /\ lastOp' = "handleSubmit"
     /\ \E text \in Inputs :
          messages' =
            messages \o <<UserMessage(Trim(text), attachedFiles), Placeholder>>

\* C26: the message list always has even length and alternates user,
\* assistant; only an accepted submit changes its length, by appending one
\* user message and one assistant message with empty content.
MessagesAlternate == []Alternating /\ [][GrowsBySubmitOnly]_vars

\* C26 witness: the second turn is receiving its answer after the first
\* turn failed with text applied: four messages.
SecondTurnAfterFailure ==
  /\ Len(messages) = 4
  /\ outcome[1] = "failed with text"
  /\ pc[2] = "read"
  /\ messages[4].content # <<>>

\* C30: while the read loop of a call is running, isStreaming is true and
\* abortControllerRef holds the controller of that call; the finally block
\* of an earlier call has not reset either of them.
LoopOwnsStreamingState ==
  \A s \in Sessions :
    pc[s] = "read" => isStreaming /\ abortControllerRef = s

\* C30 witness: the loop of the second call is running after the finally
\* block of the first call, which failed, has run.
SecondLoopAfterCleanup ==
  /\ pc[1] = "done"
  /\ outcome[1] \in {"failed", "failed with text"}
  /\ pc[2] = "read"
  /\ received[2] # <<>>

-----------------------------------------------------------------------------
(* StreamingChat: what a refused submit and an update of the answer leave  *)
(* alone                                                                   *)

Blank(text) == \A i \in 1..Len(text) : text[i] \in WhiteSpace

\* C32: a submit with empty or whitespace-only input, or while isStreaming
\* is true, changes nothing: no message is added, no request is sent, the
\* abort handle, the attachments and every running call stay as they are.
RefusedSubmitChangesNothing ==
  [][SubmitStep /\ (Blank(input) \/ isStreaming) =>
       UNCHANGED <<messages, requests, input, isStreaming, abortControllerRef,
                   aborted, pc, locals, outcome, attachedFiles>>]_vars

\* C32 witness: after a finished turn, a submit of a blank input has
\* returned at the guard.
BlankSubmitReturned ==
  /\ lastOp = "handleSubmit:return"
  /\ input = <<" ">>
  /\ ~isStreaming
  /\ Len(messages) = 2
  /\ Len(requests) = 1

\* message k differs between the two states of a step in its content only
ContentOnly(k) == [messages'[k] EXCEPT !.content = messages[k].content] = messages[k]

\* C33: a step keeps every message there is and the role of each; the only
\* message a step changes is the last one, an assistant message, in its
\* content, and the step is a chunk of deltas or the catch block.
OnlyLastAnswerChanges ==
  [][/\ Len(messages') >= Len(messages)
     /\ \A k \in 1..Len(messages) :
          messages'[k] # messages[k] =>
            /\ k = Len(messages)
            /\ messages[k].role = "assistant"
            /\ ContentOnly(k)
            /\ lastOp' \in {"chunk", "catch"}]_vars

\* C33 witness: a chunk has just added text to the answer of the second
\* turn, below the messages of the first turn.
SecondAnswerGrown ==
  /\ lastOp = "chunk"
  /\ Len(messages) = 4
  /\ messages[2].content # <<>>
  /\ messages[4].content # <<>>
  /\ messages[3].content = <<"h", "i">>

-----------------------------------------------------------------------------
(* StreamingChat: every call of handleSubmit cleans up                     *)

\* no call of handleSubmit is waiting for its response or reading it
NoCallRunning == \A s \in Sessions : pc[s] \notin {"fetch", "read"}

\* C31: after an accepted submit, which sets isStreaming, the call is in
\* the end over, with isStreaming false and abortControllerRef null,
\* however it leaves the loop.
EveryCallCleansUp ==
  isStreaming ~> (~isStreaming /\ abortControllerRef = 0 /\ NoCallRunning)

\* C31 witness: the first call has left by the catch block, the second by
\* the end of its stream, and the flag and the handle are reset.
BothExitsCleanedUp ==
  /\ outcome[1] \in {"failed", "failed with text"}
  /\ outcome[2] = "ended"
  /\ lastOp = "done"
  /\ ~isStreaming
  /\ abortControllerRef = 0

-----------------------------------------------------------------------------
(* StreamingChat and FileUpload: attachments                               *)

AcceptedSubmit == lastOp' = "handleSubmit" /\ Len(messages') > Len(messages)

\* the request and the user message of an accepted submit
Sent == requests'[Len(requests')]
Prompt == messages'[Len(messages') - 1]

\* An accepted submit sends one request: with the ids of the attached files
\* in their order, or without file_ids when there is none; its user message
\* holds the attached files, and no file stays attached.
SubmitTakesAttachments ==
  AcceptedSubmit =>
    /\ Len(requests') = Len(requests) + 1
    /\ IF attachedFiles = <<>>
       THEN DOMAIN Sent = {"prompt"} /\ Prompt.files = Null
       ELSE /\ DOMAIN Sent = {"prompt", "file_ids"}
            /\ Len(Sent.file_ids) = Len(attachedFiles)
            /\ \A n \in 1..Len(attachedFiles) :
                 Sent.file_ids[n] = attachedFiles[n].file_id
            /\ Prompt.files = attachedFiles
    /\ attachedFiles' = <<>>

\* A step leaves every user message as it is, whatever is uploaded or
\* removed.
SubmittedStaysAsSent ==
  \A k \in 1..Len(messages) :
    messages[k].role = "user" => messages'[k] = messages[k]

\* the uploads whose file is held by the user message of turn s
UploadsOf(s) ==
  IF messages[2 * s - 1].files = Null THEN {}
  ELSE {messages[2 * s - 1].files[n].upload :
          n \in 1..Len(messages[2 * s - 1].files)}

Turns == 1..(Len(messages) \div 2)

\* An uploaded file is attached or with one prompt, never both and never
\* with two prompts; and a request was sent for every prompt.
SentWithOnePrompt ==
  /\ Len(requests) = Len(messages) \div 2
  /\ \A s, u \in Turns : s # u => UploadsOf(s) \cap UploadsOf(u) = {}
  /\ \A s \in Turns, n \in 1..Len(attachedFiles) :
       attachedFiles[n].upload \notin UploadsOf(s)

\* C34: an accepted submit sends the ids of the files attached at that
\* moment, in attachment order (no file_ids when none is attached), keeps
\* those files in its user message and empties the attachment list; a file
\* goes with one prompt only, and a submitted message is not changed by a
\* later upload or removal.
AttachmentsGoWithOnePrompt ==
  /\ []SentWithOnePrompt
  /\ [][SubmitTakesAttachments /\ SubmittedStaysAsSent]_vars

\* C34 witness: three files were uploaded; the first prompt went with two
\* of them, the other one was removed, and the second prompt went with
\* none.
SecondPromptWithoutFiles ==
  /\ Len(requests) = 2
  /\ Len(messages[1].files) = 2
  /\ Len(requests[1].file_ids) = 2
  /\ messages[3].files = Null
  /\ DOMAIN requests[2] = {"prompt"}
  /\ Len(selects) = 3
  /\ \A k \in 1..3 : selects[k].pc = "ok"
  /\ lastOp = "handleSubmit"

-----------------------------------------------------------------------------
(* FileUpload: the uploading flag and the calls of the props               *)

InFlight == {k \in 1..Len(selects) : selects[k].pc = "fetch"}

Over == {k \in 1..Len(selects) : selects[k].pc # "fetch"}

\* C35: uploading is true exactly while an upload request is in flight,
\* whatever the outcome of the one before; an upload in flight has called
\* neither prop, and for a chosen file that is not in flight exactly one
\* of onFileUploaded and onUploadError was called, onFileUploaded exactly
\* on an OK response with a file in it; and at most one upload is in flight.
UploadingWhileInFlight ==
  /\ uploading <=> InFlight # {}
  /\ Cardinality(InFlight) <= 1
  /\ \A k \in InFlight : calls[k] = <<>>
  /\ \A k \in Over :
       /\ Len(calls[k]) = 1
       /\ calls[k][1].fn \in {"onFileUploaded", "onUploadError"}
       /\ calls[k][1].fn = "onFileUploaded" <=> selects[k].pc = "ok"

\* C35 witness: uploads have ended with an OK response, with a response
\* that is not OK and with a rejected fetch, and uploading is false again.
ThreeOutcomesSeen ==
  /\ ~uploading
  /\ Len(selects) = 3
  /\ selects[1].pc = "ok"
  /\ selects[2].pc = "not ok"
  /\ selects[3].pc = "rejects"

\* What follows the last dot of a name; all of a name without a dot, which
\* is what the code takes for it.
AfterLastDot(name) ==
  CHOOSE e \in {SubSeq(name, i, Len(name)) : i \in 1..(Len(name) + 1)} :
    /\ \A j \in 1..Len(e) : e[j] # "."
    /\ Len(e) = Len(name) \/ name[Len(name) - Len(e)] = "."

NotAllowed(name) == <<".">> \o toLowerCase(AfterLastDot(name)) \notin allowedExtensions

\* a file whose extension is not allowed has sent no request and has called
\* onUploadError, once, with the error Unsupported file type
UnsupportedIsReported ==
  \A k \in 1..Len(selects) :
    NotAllowed(selects[k].name) =>
      /\ selects[k].pc = "unsupported"
      /\ calls[k] = <<[fn |-> "onUploadError", error |-> "Unsupported file type"]>>

\* choosing such a file leaves the flag, the attachments, the uploads in
\* flight and the requests alone
UnsupportedChangesNothing ==
  Len(selects') > Len(selects) /\ NotAllowed(selects'[Len(selects')].name) =>
    /\ UNCHANGED <<uploading, attachedFiles, removals, requests, messages>>
    /\ \A k \in 1..Len(selects) : selects'[k] = selects[k]

\* C36: choosing a file whose extension, the lower-cased text after the last
\* dot of its name, is not in the allowed list sends no upload request,
\* calls onUploadError with Unsupported file type, never calls
\* onFileUploaded, and leaves uploading and the attachments as they are.
UnsupportedFileIsRefused ==
  /\ []UnsupportedIsReported
  /\ [][UnsupportedChangesNothing]_vars

\* C36 witness: a.py.exe has just been refused while another file is
\* attached.
RefusedBesideAttachment ==
  /\ lastOp = "handleFileSelect:unsupported"
  /\ selects[Len(selects)].name = <<"a", ".", "py", ".", "exe">>
  /\ Len(attachedFiles) = 1
  /\ ~uploading

====
